---- MODULE Spec2Model ----
(***************************************************************************)
(* A model of website-analyzer (src/analyzer.py): main, take_screenshots   *)
(* and handle_cookie_consent.  The program is one sequential flow of       *)
(* awaited browser operations.  Every awaited operation is one step whose  *)
(* outcome (success, or an exception) is chosen by the environment; the    *)
(* try/except/finally structure of the source decides where control goes   *)
(* next.                                                                   *)
(***************************************************************************)
EXTENDS Integers, Sequences, FiniteSets, TLC

\* Number of catalog entries of the model (the source lists 19, lines 24-43).
NumSelectors == 3

\* accept_selectors, entries named by their position in the list.
accept_selectors == [i \in 1..NumSelectors |-> i]

\* The two viewport profiles, in the order the source processes them.
Profiles == {"desktop", "mobile"}

\* --url values, as sequences of characters: a valid absolute URL, a word
\* with no scheme and no host, a scheme with no host, a host with no scheme.
UrlInputs ==
    { <<"h", ":", "/", "/", "e", "/">>,
      <<"n", "-", "a">>,
      <<"h", ":", "/", "/">>,
      <<"/", "/", "e">> }

\* The URL a page reports after a navigation that was redirected.
RedirectedUrl == <<"h", ":", "/", "/", "r", "/">>

VARIABLES
    url,            \* args.url
    verbose,        \* args.verbose
    skip_cookies,   \* args.skip_cookies
    pc,             \* position in main / take_screenshots / handle_cookie_consent
    prof,           \* the profile whose block take_screenshots is executing
    dirs,           \* directories created by os.makedirs
    browser,        \* "none" | "open" | "closed"
    ctx,            \* per profile: "none" | "open" | "closed"
    page_url,       \* per profile: page.url, <<>> before a navigation succeeded
    jar,            \* per profile: the cookies of the profile's context
    files,          \* screenshot files written
    exc,            \* an exception is propagating out of the try at line 176
    raised,         \* an exception left take_screenshots or main
    log,            \* browser operations invoked by take_screenshots, in order
    out,            \* lines printed, in order
    idx,            \* handle_cookie_consent: position of `selector` in the list
    button_found,   \* handle_cookie_consent: button_found
    ops,            \* handle_cookie_consent: page operations of this call, in order
    rexc            \* handle_cookie_consent: an exception is leaving the call

vars == <<url, verbose, skip_cookies, pc, prof, dirs, browser, ctx, page_url,
          jar, files, exc, raised, log, out, idx, button_found, ops, rexc>>

inputs == <<url, verbose, skip_cookies>>
frame == <<idx, button_found, ops, rexc>>
world == <<dirs, browser, ctx, page_url, jar, files>>

----------------------------------------------------------------------------
\* urllib.parse.urlparse, as main uses it (scheme and netloc only).

IsLetter(c) == c \in {"h", "n", "a", "e", "r"}

\* Position of the first ":" of s, 0 when there is none.
RECURSIVE FindColon(_, _)
FindColon(s, i) ==
    IF i > Len(s) THEN 0
    ELSE IF s[i] = ":" THEN i
    ELSE FindColon(s, i + 1)

\* The scheme: the characters before the first ":", when there is at least
\* one, the first is a letter and all are scheme characters.
Scheme(s) ==
    LET i == FindColon(s, 1)
    IN  IF i > 1 /\ IsLetter(s[1])
           /\ \A k \in 1..(i - 1) : IsLetter(s[k]) \/ s[k] \in {"-"}
        THEN SubSeq(s, 1, i - 1)
        ELSE <<>>

AfterScheme(s) ==
    IF Scheme(s) = <<>> THEN s ELSE SubSeq(s, Len(Scheme(s)) + 2, Len(s))

\* Length of the prefix of s that holds no "/", "?" or "#".
RECURSIVE NetlocEnd(_, _)
NetlocEnd(s, i) ==
    IF i > Len(s) \/ s[i] \in {"/", "?", "#"} THEN i - 1
    ELSE NetlocEnd(s, i + 1)

\* The network location: what follows a leading "//", up to the next
\* delimiter.
Netloc(s) ==
    LET r == AfterScheme(s)
    IN  IF Len(r) >= 2 /\ r[1] = "/" /\ r[2] = "/"
        THEN LET t == SubSeq(r, 3, Len(r))
             IN  SubSeq(t, 1, NetlocEnd(t, 1))
        ELSE <<>>

----------------------------------------------------------------------------
\* Helpers of the actions.

\* One printed line: which message, and the profile it names ("none" when it
\* names no profile).
Line(msg, p) == [msg |-> msg, prof |-> p]

\* print(line) when cond holds.
Say(cond, line) == IF cond THEN Append(out, line) ELSE out

\* One operation of take_screenshots on the browser, for the log.
Ev(op, p, ok) == [op |-> op, prof |-> p, ok |-> ok]

\* One operation of handle_cookie_consent on the page, for ops: the selector
\* it is about (0 when none), the url field of the cookie it passes (<<>>
\* when none) and how it ended.
PageOp(op, sel, u, res) == [op |-> op, sel |-> sel, url |-> u, res |-> res]

Init ==
    /\ url \in UrlInputs
    /\ verbose \in BOOLEAN
    /\ skip_cookies \in BOOLEAN
    /\ pc = "main"
    /\ prof = "desktop"
    /\ dirs = {}
    /\ browser = "none"
    /\ ctx = [p \in Profiles |-> "none"]
    /\ page_url = [p \in Profiles |-> <<>>]
    /\ jar = [p \in Profiles |-> {}]
    /\ files = {}
    /\ exc = FALSE
    /\ raised = FALSE
    /\ log = <<>>
    /\ out = <<>>
    /\ idx = 0
    /\ button_found = FALSE
    /\ ops = <<>>
    /\ rexc = FALSE

----------------------------------------------------------------------------
\* main (lines 235-260)

\* InvalidUrl rejecting only a URL that has neither scheme nor netloc.
InvalidUrlBoth(u) == Scheme(u) = <<>> /\ Netloc(u) = <<>>

\* Line 242: not parsed_url.scheme or not parsed_url.netloc.
InvalidUrl(u) == Scheme(u) = <<>> \/ Netloc(u) = <<>>

\* Lines 240-248: the URL is rejected when it has no scheme or no netloc.
Main ==
    /\ pc = "main"
    /\ IF InvalidUrl(url)
       THEN /\ out' = Append(out, Line("invalid_url", "none"))
            /\ pc' = "exit"
       ELSE /\ out' = out
            /\ pc' = "main_makedirs"
    /\ UNCHANGED <<inputs, prof, world, exc, raised, log, frame>>

\* Lines 251-257: the output directory is created; os.makedirs may raise,
\* and nothing in main catches it.
MainMakedirs ==
    /\ pc = "main_makedirs"
    /\ \E ok \in BOOLEAN :
         IF ok
         THEN /\ dirs' = dirs \cup {"output_dir"}
              /\ out' = Say(verbose, Line("url_and_output_dir", "none"))
              /\ pc' = "ts_makedirs"
              /\ raised' = raised
         ELSE /\ raised' = TRUE
              /\ pc' = "exit"
              /\ UNCHANGED <<dirs, out>>
    /\ UNCHANGED <<inputs, prof, browser, ctx, page_url, jar, files, exc, log, frame>>

----------------------------------------------------------------------------
\* take_screenshots (lines 152-232)

\* Lines 161-162: the screenshots directory is created before the outer try,
\* so a failure of os.makedirs leaves take_screenshots as an exception.
Makedirs ==
    /\ pc = "ts_makedirs"
    /\ \E ok \in BOOLEAN :
         IF ok
         THEN /\ dirs' = dirs \cup {"screenshots"}
              /\ pc' = "playwright"
              /\ raised' = raised
         ELSE /\ raised' = TRUE
              /\ pc' = "exit"
              /\ dirs' = dirs
    /\ UNCHANGED <<inputs, prof, browser, ctx, page_url, jar, files, exc, log, out, frame>>

\* OuterExcept printing and raising again: the exception leaves
\* take_screenshots.
OuterExceptReraises(o) ==
    /\ out' = Append(o, Line("capture_error", "none"))
    /\ raised' = TRUE
    /\ pc' = "exit"

\* Lines 231-232: the outer handler reports whatever reached it and the
\* function returns.
OuterExcept(o) ==
    /\ out' = Append(o, Line("capture_error", "none"))
    /\ raised' = FALSE
    /\ pc' = "exit"

\* Lines 165-168: entering async_playwright(); a failure is inside the outer
\* try and reaches its handler.
AsyncPlaywright ==
    /\ pc = "playwright"
    /\ \E ok \in BOOLEAN :
         IF ok
         THEN /\ out' = Say(verbose, Line("launching", "none"))
              /\ pc' = "launch"
              /\ raised' = raised
         ELSE OuterExcept(out)
    /\ UNCHANGED <<inputs, prof, world, exc, log, frame>>

\* LaunchFailed without the return of line 174: the desktop block follows.
LaunchFailedContinues ==
    /\ out' = Append(out, Line("launch_error", "none"))
    /\ pc' = "new_context"

\* Lines 172-174: a launch failure is printed and take_screenshots returns.
LaunchFailed ==
    /\ out' = Append(out, Line("launch_error", "none"))
    /\ pc' = "exit"

\* Lines 170-174: p.chromium.launch.
Launch ==
    /\ pc = "launch"
    /\ \E ok \in BOOLEAN :
         /\ log' = Append(log, Ev("launch", "browser", ok))
         /\ IF ok
            THEN /\ browser' = "open"
                 /\ pc' = "new_context"
                 /\ out' = out
            ELSE /\ LaunchFailed
                 /\ browser' = browser
    /\ prof' = "desktop"
    /\ UNCHANGED <<inputs, dirs, ctx, page_url, jar, files, exc, raised, frame>>

\* Propagate with no finally at line 228: the exception goes straight to
\* the outer handler's exit.
PropagateSkipsFinally ==
    /\ exc' = TRUE
    /\ pc' = "exit"

\* An exception raised outside the profile's inner try (lines 181-184,
\* 199, 205-208, 223) leaves the try of line 176: its finally (line 228)
\* runs next and the exception goes on to the outer handler.
Propagate ==
    /\ exc' = TRUE
    /\ pc' = "browser_close"

\* Lines 178-183 and 202-207: browser.new_context for the profile.
NewContext ==
    /\ pc = "new_context"
    /\ out' = Say(verbose, Line("taking", prof))
    /\ \E ok \in BOOLEAN :
         /\ log' = Append(log, Ev("new_context", prof, ok))
         /\ IF ok
            THEN /\ ctx' = [ctx EXCEPT ![prof] = "open"]
                 /\ pc' = "new_page"
                 /\ exc' = exc
            ELSE /\ Propagate
                 /\ ctx' = ctx
    /\ UNCHANGED <<inputs, prof, dirs, browser, page_url, jar, files, raised, frame>>

\* Lines 184 and 208: context.new_page, after the context was created and
\* before the inner try is entered.
NewPage ==
    /\ pc = "new_page"
    /\ \E ok \in BOOLEAN :
         /\ log' = Append(log, Ev("new_page", prof, ok))
         /\ IF ok
            THEN /\ pc' = "goto"
                 /\ exc' = exc
            ELSE Propagate
    /\ UNCHANGED <<inputs, prof, world, raised, out, frame>>

\* ProfileExcept printing only when verbose.
ProfileExceptVerboseOnly ==
    /\ out' = Say(verbose, Line("profile_error", prof))
    /\ pc' = "ctx_close"

\* ProfileExcept going on with the screenshot instead of abandoning the
\* profile.
ProfileExceptContinues ==
    /\ out' = Append(out, Line("profile_error", prof))
    /\ pc' = "screenshot"

\* Lines 196-198 and 220-222: the profile's handler prints the error
\* (whatever verbose is) and control falls into the profile's finally.
ProfileExcept ==
    /\ out' = Append(out, Line("profile_error", prof))
    /\ pc' = "ctx_close"

\* AfterGoto ignoring skip_cookies.
AfterGotoAlwaysResolves == "resolve"

\* Lines 189-193 and 213-217: after the navigation the resolver is called
\* unless skip_cookies, which leads straight to the screenshot.
AfterGoto == IF skip_cookies THEN "screenshot" ELSE "resolve"

\* Lines 187-189 and 211-213: page.goto; on success the resolver is called
\* unless skip_cookies.
Goto ==
    /\ pc = "goto"
    /\ \E ok \in BOOLEAN, u \in {url, RedirectedUrl} :
         /\ log' = Append(log, Ev("goto", prof, ok))
         /\ IF ok
            THEN /\ page_url' = [page_url EXCEPT ![prof] = u]
                 /\ pc' = AfterGoto
                 /\ out' = out
            ELSE /\ ProfileExcept
                 /\ page_url' = page_url
    /\ UNCHANGED <<inputs, prof, dirs, browser, ctx, jar, files, exc, raised, frame>>

----------------------------------------------------------------------------
\* handle_cookie_consent (lines 13-116)

\* Lines 190 and 214: the call; the locals of lines 22-47 are set up.
CallHandleCookieConsent ==
    /\ pc = "resolve"
    /\ log' = Append(log, Ev("resolve", prof, TRUE))
    /\ idx' = 1
    /\ button_found' = FALSE
    /\ ops' = <<>>
    /\ rexc' = FALSE
    /\ pc' = "r_probe"
    /\ UNCHANGED <<inputs, prof, world, exc, raised, out>>

\* Lines 48 and 59-64: `continue` takes the next selector of the list; when
\* the list is exhausted, Fallback 1 runs unless button_found, and then
\* Fallback 2.
NextSelector(found) ==
    IF idx < NumSelectors
    THEN /\ idx' = idx + 1
         /\ pc' = "r_probe"
    ELSE /\ idx' = idx
         /\ pc' = IF found THEN "r_style" ELSE "r_cookies"

\* Lines 50-51 and 59-61: page.locator(selector).first.is_visible(timeout=500)
\* reports a visible element, reports none, or raises; only the first leads
\* to the click.
Probe ==
    /\ pc = "r_probe"
    /\ \E res \in {"visible", "hidden", "raised"} :
         /\ ops' = Append(ops, PageOp("probe", accept_selectors[idx], <<>>, res))
         /\ IF res = "visible"
            THEN /\ pc' = "r_click"
                 /\ idx' = idx
            ELSE NextSelector(button_found)
    /\ UNCHANGED <<inputs, prof, world, exc, raised, log, out, button_found, rexc>>

\* Lines 52-53 and 59-61: button.click(); button_found is set only when it
\* returned, and a click that raised goes on to the next selector.
Click ==
    /\ pc = "r_click"
    /\ \E ok \in BOOLEAN :
         /\ ops' = Append(ops, PageOp("click", accept_selectors[idx], <<>>,
                                      IF ok THEN "ok" ELSE "raised"))
         /\ IF ok
            THEN /\ button_found' = TRUE
                 /\ pc' = "r_wait_click"
                 /\ idx' = idx
            ELSE /\ button_found' = button_found
                 /\ NextSelector(button_found)
    /\ UNCHANGED <<inputs, prof, world, exc, raised, log, out, rexc>>

\* Lines 55-61: page.wait_for_timeout(1000) after the click, inside the same
\* try as the probe and the click: when it returns the function returns,
\* when it raises the handler of line 59 continues with the next selector.
WaitAfterClick ==
    /\ pc = "r_wait_click"
    /\ \E ok \in BOOLEAN :
         /\ ops' = Append(ops, PageOp("wait", accept_selectors[idx], <<>>,
                                      IF ok THEN "ok" ELSE "raised"))
         /\ IF ok
            THEN /\ out' = Say(verbose, Line("banner_handled", prof))
                 /\ pc' = "r_ret"
                 /\ idx' = idx
            ELSE /\ out' = out
                 /\ NextSelector(button_found)
    /\ UNCHANGED <<inputs, prof, world, exc, raised, log, button_found, rexc>>

\* CookieUrl taking the URL take_screenshots was given instead of page.url.
CookieUrlIsTarget == url

\* Line 66: the URL the cookie is scoped to is the page's own, read when
\* Fallback 1 starts.
CookieUrl == page_url[prof]

\* Lines 67-71: the injected cookie.
ConsentCookie(u) == [name |-> "cookie_consent", value |-> "accepted", url |-> u]

\* PageContext being one context shared by both profiles.
PageContextIsShared == "desktop"

\* Line 67: page.context, the context the page was opened in.
PageContext == prof

\* Fallback1Failed trying the cookie injection again.
Fallback1FailedRetries == pc' = "r_cookies"

\* Fallback1Failed returning instead of falling through to Fallback 2.
Fallback1FailedReturns == pc' = "r_ret"

\* Lines 77-78: whatever Fallback 1 raised is dropped and Fallback 2 follows.
Fallback1Failed == pc' = "r_style"

\* Lines 64-71 and 77-78: context.add_cookies, entered only with
\* button_found false.
AddCookies ==
    /\ pc = "r_cookies"
    /\ \E ok \in BOOLEAN :
         /\ ops' = Append(ops, PageOp("add_cookies", 0, CookieUrl,
                                      IF ok THEN "ok" ELSE "raised"))
         /\ IF ok
            THEN /\ jar' = [jar EXCEPT ![PageContext] = @ \cup {ConsentCookie(CookieUrl)}]
                 /\ pc' = "r_reload"
            ELSE /\ jar' = jar
                 /\ Fallback1Failed
    /\ UNCHANGED <<inputs, prof, dirs, browser, ctx, page_url, files, exc, raised,
                   log, out, idx, button_found, rexc>>

\* Lines 72 and 77-78: page.reload().
Reload ==
    /\ pc = "r_reload"
    /\ \E ok \in BOOLEAN :
         /\ ops' = Append(ops, PageOp("reload", 0, <<>>, IF ok THEN "ok" ELSE "raised"))
         /\ IF ok THEN pc' = "r_wait_reload" ELSE Fallback1Failed
    /\ UNCHANGED <<inputs, prof, world, exc, raised, log, out, idx, button_found, rexc>>

\* Lines 73-78: page.wait_for_timeout(1000) after the reload; when it
\* returns the function returns (line 76), before Fallback 2.
WaitAfterReload ==
    /\ pc = "r_wait_reload"
    /\ \E ok \in BOOLEAN :
         /\ ops' = Append(ops, PageOp("wait", 0, <<>>, IF ok THEN "ok" ELSE "raised"))
         /\ IF ok
            THEN /\ out' = Say(verbose, Line("cookie_injected", prof))
                 /\ pc' = "r_ret"
            ELSE /\ out' = out
                 /\ Fallback1Failed
    /\ UNCHANGED <<inputs, prof, world, exc, raised, log, idx, button_found, rexc>>

\* StyleFailed without the handlers of lines 110 and 113: the failure leaves
\* the call.
StyleFailedEscapes ==
    /\ rexc' = TRUE
    /\ pc' = "r_ret"

\* Lines 110-111: a failure of the style injection is dropped; the function
\* ends with no exception.
StyleFailed ==
    /\ rexc' = FALSE
    /\ pc' = "r_ret"

\* Lines 81-111: page.add_style_tag(content=hide_css).
AddStyleTag ==
    /\ pc = "r_style"
    /\ \E ok \in BOOLEAN :
         /\ ops' = Append(ops, PageOp("add_style_tag", 0, <<>>, IF ok THEN "ok" ELSE "raised"))
         /\ IF ok
            THEN /\ out' = Say(verbose, Line("banners_hidden", prof))
                 /\ pc' = "r_ret"
                 /\ rexc' = rexc
            ELSE /\ out' = out
                 /\ StyleFailed
    /\ UNCHANGED <<inputs, prof, world, exc, raised, log, idx, button_found>>

\* Lines 190-192 and 214-216: control is back in take_screenshots and the
\* locals of the call are gone.  An exception leaving the call would be
\* inside the profile's try and reach its handler.
ReturnFromHandleCookieConsent ==
    /\ pc = "r_ret"
    /\ log' = Append(log, Ev("resolved", prof, ~rexc))
    /\ IF rexc
       THEN ProfileExcept
       ELSE /\ pc' = "settle"
            /\ out' = out
    /\ idx' = 0
    /\ button_found' = FALSE
    /\ ops' = <<>>
    /\ rexc' = FALSE
    /\ UNCHANGED <<inputs, prof, world, exc, raised>>

----------------------------------------------------------------------------
\* take_screenshots, continued

\* Lines 192 and 216: page.wait_for_timeout(2000) after the resolver.
Settle ==
    /\ pc = "settle"
    /\ \E ok \in BOOLEAN :
         /\ log' = Append(log, Ev("settle", prof, ok))
         /\ IF ok
            THEN /\ pc' = "screenshot"
                 /\ out' = out
            ELSE ProfileExcept
    /\ UNCHANGED <<inputs, prof, world, exc, raised, frame>>

\* Lines 193-197 and 217-221: page.screenshot(path=...).
Screenshot ==
    /\ pc = "screenshot"
    /\ \E ok \in BOOLEAN :
         /\ log' = Append(log, Ev("screenshot", prof, ok))
         /\ IF ok
            THEN /\ files' = files \cup {prof}
                 /\ pc' = "ctx_close"
                 /\ out' = out
            ELSE /\ files' = files
                 /\ ProfileExcept
    /\ UNCHANGED <<inputs, prof, dirs, browser, ctx, page_url, jar, exc, raised, frame>>

\* ClosedContext naming the mobile context in both blocks.
ClosedContextIsMobile == "mobile"

\* Lines 199 and 223: the context a block's finally closes is the block's
\* own (desktop_context, mobile_context).
ClosedContext == prof

\* Lines 198-203 and 222-226: the profile's finally closes its context; a
\* close that raises leaves the try of line 176.  After the desktop block
\* the mobile block follows, after the mobile block the try ends.
ContextClose ==
    /\ pc = "ctx_close"
    /\ \E ok \in BOOLEAN :
         /\ log' = Append(log, Ev("ctx_close", ClosedContext, ok))
         /\ IF ok
            THEN /\ ctx' = [ctx EXCEPT ![ClosedContext] = "closed"]
                 /\ exc' = exc
                 /\ IF prof = "desktop"
                    THEN /\ prof' = "mobile"
                         /\ pc' = "new_context"
                         /\ out' = out
                    ELSE /\ prof' = prof
                         /\ pc' = "browser_close"
                         /\ out' = Say(verbose, Line("completed", "none"))
            ELSE /\ Propagate
                 /\ UNCHANGED <<ctx, prof, out>>
    /\ UNCHANGED <<inputs, dirs, browser, page_url, jar, files, raised, frame>>

\* Lines 228-232: the finally of the try of line 176 closes the browser;
\* the exception that brought control here, or the one browser.close
\* raised, then reaches the outer handler.
BrowserClose ==
    /\ pc = "browser_close"
    /\ \E ok \in BOOLEAN :
         /\ log' = Append(log, Ev("browser_close", "browser", ok))
         /\ browser' = IF ok THEN "closed" ELSE browser
         /\ IF exc \/ ~ok
            THEN OuterExcept(out)
            ELSE /\ pc' = "exit"
                 /\ out' = out
                 /\ raised' = raised
    /\ exc' = FALSE
    /\ UNCHANGED <<inputs, prof, dirs, ctx, page_url, jar, files, frame>>

----------------------------------------------------------------------------
Next ==
    \/ Main
    \/ MainMakedirs
    \/ Makedirs
    \/ AsyncPlaywright
    \/ Launch
    \/ NewContext
    \/ NewPage
    \/ Goto
    \/ CallHandleCookieConsent
    \/ Probe
    \/ Click
    \/ WaitAfterClick
    \/ AddCookies
    \/ Reload
    \/ WaitAfterReload
    \/ AddStyleTag
    \/ ReturnFromHandleCookieConsent
    \/ Settle
    \/ Screenshot
    \/ ContextClose
    \/ BrowserClose

Spec == Init /\ [][Next]_vars

----------------------------------------------------------------------------
\* Properties.  The operators below read the histories (ops, log, out); they
\* are not part of the program.

\* Positions of ops that hold the page operation op.
OpsAt(op) == {i \in 1..Len(ops) : ops[i].op = op}

\* Positions of log that hold operation op of profile p.
LogAt(op, p) == {i \in 1..Len(log) : log[i].op = op /\ log[i].prof = p}

\* Control is inside handle_cookie_consent and the call has not ended.
InCall == pc \in {"r_probe", "r_click", "r_wait_click", "r_cookies",
                  "r_reload", "r_wait_reload", "r_style"}

\* The call ended at line 58: its last operation is the settling delay after
\* a click, and the delay returned.
ReturnedFromTier1 ==
    /\ ops # <<>>
    /\ ops[Len(ops)].op = "wait"
    /\ ops[Len(ops)].sel > 0
    /\ ops[Len(ops)].res = "ok"

\* Fallback 1 ran to its end: the injection, the reload and the delay after
\* it all returned.
Tier2Completed ==
    /\ \E i \in OpsAt("add_cookies") : ops[i].res = "ok"
    /\ \E i \in OpsAt("reload") : ops[i].res = "ok"
    /\ \E i \in OpsAt("wait") : ops[i].sel = 0 /\ ops[i].res = "ok"

StyleAttempted == OpsAt("add_style_tag") # {}

\* C1: handle_cookie_consent never lets an exception out, whichever of its
\* page operations raise: no exception is ever leaving the call, the call
\* can always take its next step until it returns, every return recorded by
\* take_screenshots is a normal one, and take_screenshots goes on to its
\* settling delay after it.
C1_NeverPropagates ==
    /\ ~rexc
    /\ InCall => ENABLED Next
    /\ \A i \in 1..Len(log) :
         log[i].op = "resolved" =>
           /\ log[i].ok
           /\ i < Len(log) => log[i + 1].op = "settle"

\* C1 witness: a call has returned in which every page operation it invoked
\* raised (every probe, the cookie injection and the style injection).
C1_Witness ==
    /\ pc = "r_ret"
    /\ Len(ops) = NumSelectors + 2
    /\ \A i \in 1..Len(ops) : ops[i].res = "raised"

\* C2 as stated: in every call that Tier 1 did not end with a successful
\* click, add_style_tag has been attempted when the call returns, also when
\* the cookie injection and the reload succeeded.
C2_Original ==
    (pc = "r_ret" /\ ~ReturnedFromTier1) => StyleAttempted

\* C2 amended: in every call that Tier 1 did not end with a successful click,
\* add_style_tag has been attempted when the call returns exactly when
\* Fallback 1 did not run to its end (it was skipped, or its injection, its
\* reload or its delay raised); it is then attempted once, as the last
\* operation of the call.
C2_StyleUnlessTier2Completed ==
    (pc = "r_ret" /\ ~ReturnedFromTier1) =>
      /\ StyleAttempted <=> ~Tier2Completed
      /\ StyleAttempted =>
           /\ Cardinality(OpsAt("add_style_tag")) = 1
           /\ ops[Len(ops)].op = "add_style_tag"

\* C2 witness: a call has returned in which the cookie injection and the
\* reload succeeded, the delay after the reload raised, and the style
\* injection was attempted.
C2_Witness ==
    /\ pc = "r_ret"
    /\ \E i \in OpsAt("reload") : ops[i].res = "ok"
    /\ StyleAttempted

\* C3 as stated: probes follow the declared order, and once the probe of
\* entry i has reported a visible element, that entry is clicked next and no
\* entry after i is probed or clicked in the call, also when the click on
\* entry i raises.
C3_Original ==
    /\ \A k, m \in OpsAt("probe") : k < m => ops[k].sel < ops[m].sel
    /\ \A k \in OpsAt("probe") :
         ops[k].res = "visible" =>
           /\ k < Len(ops) => (ops[k + 1].op = "click" /\ ops[k + 1].sel = ops[k].sel)
           /\ \A m \in OpsAt("probe") \cup OpsAt("click") : ops[m].sel <= ops[k].sel

\* Every catalog entry was probed and no probe reported a visible element.
TierOneNoMatch ==
    /\ Cardinality(OpsAt("probe")) = NumSelectors
    /\ \A i \in OpsAt("probe") : ops[i].res # "visible"

\* C4 as stated: when no catalog entry matched, the returned call has put one
\* consent cookie for the page's current URL into the jar of the page's
\* context, has reloaded exactly once and has clicked nothing.
C4_Original ==
    (pc = "r_ret" /\ TierOneNoMatch) =>
      /\ ConsentCookie(page_url[prof]) \in jar[prof]
      /\ Cardinality(OpsAt("reload")) = 1
      /\ OpsAt("click") = {}

\* C4 amended: when no catalog entry matched, the returned call has attempted
\* exactly one cookie injection, whose url field is the page's current URL,
\* on the page's own context, and has clicked nothing; when the injection
\* succeeded the cookie is in that context's jar and exactly one reload was
\* triggered, and when it raised the jar is empty and no reload was
\* triggered.
C4_InjectThenReload ==
    (pc = "r_ret" /\ TierOneNoMatch) =>
      /\ Cardinality(OpsAt("add_cookies")) = 1
      /\ OpsAt("click") = {}
      /\ prof = "desktop" => jar["mobile"] = {}
      /\ \A i \in OpsAt("add_cookies") :
           /\ ops[i].url = page_url[prof]
           /\ ops[i].res = "ok" =>
                /\ jar[prof] = {ConsentCookie(page_url[prof])}
                /\ Cardinality(OpsAt("reload")) = 1
           /\ ops[i].res = "raised" =>
                /\ jar[prof] = {}
                /\ OpsAt("reload") = {}

\* C4 witness: a call on a redirected page has returned after no entry
\* matched, with the cookie injected and the page reloaded.
C4_Witness ==
    /\ pc = "r_ret"
    /\ TierOneNoMatch
    /\ page_url[prof] = RedirectedUrl
    /\ jar[prof] # {}
    /\ OpsAt("reload") # {}

\* C5 as stated: after a click that succeeded, the call performs no further
\* probe, cookie injection, reload or style injection; and the cookie
\* injection is attempted only in calls in which no click succeeded.
C5_Original ==
    /\ \A k \in OpsAt("click") :
         ops[k].res = "ok" =>
           \A m \in (k + 1)..Len(ops) :
             ops[m].op \notin {"probe", "add_cookies", "reload", "add_style_tag"}
    /\ OpsAt("add_cookies") # {} =>
         \A k \in OpsAt("click") : ops[k].res # "ok"

\* The browser was launched.
Launched == \E i \in LogAt("launch", "browser") : log[i].ok

\* The mobile block was started: browser.new_context was invoked for it.
MobileAttempted == LogAt("new_context", "mobile") # {}

\* C6 as stated, in its weakest reading (the mobile block is at least
\* started): in a finished run in which the desktop navigation failed, the
\* mobile profile was attempted.
C6_Original ==
    (pc = "exit" /\ \E i \in LogAt("goto", "desktop") : ~log[i].ok)
      => MobileAttempted

\* C7 as stated: in a finished run whose launch succeeded and in which some
\* operation of the desktop profile failed, the mobile profile was attempted.
C7_Original ==
    (pc = "exit" /\ Launched
       /\ \E i \in 1..Len(log) : log[i].prof = "desktop" /\ ~log[i].ok)
      => MobileAttempted

\* C8 as stated: a context that was created has had close() invoked on it
\* before any operation of the other profile or of the browser follows.
C8_Original ==
    \A p \in Profiles :
      \A k \in LogAt("new_context", p) :
        log[k].ok =>
          \A m \in (k + 1)..Len(log) :
            log[m].prof # p => \E c \in LogAt("ctx_close", p) : k < c /\ c < m

\* C9: the browser is launched at most once; browser.close() is invoked at
\* most once, only on a launched browser and after every operation of both
\* profiles; and a finished run whose launch succeeded has invoked it exactly
\* once, whatever failed inside the profiles.
C9_BrowserLifecycle ==
    /\ Cardinality(LogAt("launch", "browser")) <= 1
    /\ Cardinality(LogAt("browser_close", "browser")) <= 1
    /\ \A i \in LogAt("browser_close", "browser") : i = Len(log) /\ Launched
    /\ (pc = "exit" /\ Launched) =>
         Cardinality(LogAt("browser_close", "browser")) = 1

\* C9 witness: a finished run in which closing the mobile context raised
\* and the browser was closed.
C9_Witness ==
    /\ pc = "exit"
    /\ \E i \in LogAt("ctx_close", "mobile") : ~log[i].ok
    /\ LogAt("browser_close", "browser") # {}

\* C10: when the launch fails, the error is printed and the run is over with
\* nothing else done: no context, no navigation, no resolver call, no
\* screenshot, no exception to the caller.
C10_LaunchFailureAborts ==
    (\E i \in LogAt("launch", "browser") : ~log[i].ok) =>
      /\ pc = "exit"
      /\ Len(log) = 1
      /\ out # <<>> /\ out[Len(out)] = Line("launch_error", "none")
      /\ browser = "none"
      /\ \A p \in Profiles : ctx[p] = "none" /\ page_url[p] = <<>> /\ jar[p] = {}
      /\ files = {}
      /\ ~raised

\* C10 witness: a run that ended on a failed launch.
C10_Witness ==
    /\ pc = "exit"
    /\ \E i \in LogAt("launch", "browser") : ~log[i].ok

\* C11: with skip_cookies, handle_cookie_consent is never invoked (no call
\* in the log, control never inside it, no page operation, no cookie in any
\* jar, no line printed by it), and a navigation that succeeded is followed
\* at once by the screenshot of its profile.
C11_SkipCookies ==
    skip_cookies =>
      /\ \A p \in Profiles : LogAt("resolve", p) = {} /\ jar[p] = {}
      /\ ~InCall /\ pc \notin {"resolve", "r_ret", "settle"}
      /\ ops = <<>>
      /\ \A i \in 1..Len(out) :
           out[i].msg \notin {"banner_handled", "cookie_injected", "banners_hidden"}
      /\ \A p \in Profiles : \A g \in LogAt("goto", p) :
           log[g].ok =>
             /\ g = Len(log) => pc = "screenshot"
             /\ g < Len(log) => log[g + 1] \in {Ev("screenshot", p, TRUE),
                                                Ev("screenshot", p, FALSE)}

\* C11 witness: a finished run with skip_cookies in which both profiles
\* navigated and both screenshots were written.
C11_Witness ==
    /\ skip_cookies
    /\ pc = "exit"
    /\ files = Profiles

\* The --url values that lack a scheme or a network location.
UrlsWithoutSchemeOrHost ==
    { <<"n", "-", "a">>, <<"h", ":", "/", "/">>, <<"/", "/", "e">> }

\* C12: for a --url value with no scheme or no network location, main
\* prints the invalid-URL line and is over: no directory was created, the
\* browser was not launched, take_screenshots did nothing.
C12_InvalidUrlRejected ==
    (url \in UrlsWithoutSchemeOrHost /\ pc # "main") =>
      /\ pc = "exit"
      /\ out = <<Line("invalid_url", "none")>>
      /\ dirs = {}
      /\ log = <<>>
      /\ browser = "none"
      /\ files = {}
      /\ ~raised

\* C12 witness: main is over for a URL that has a scheme and no network
\* location.
C12_Witness ==
    /\ url = <<"h", ":", "/", "/">>
    /\ pc = "exit"
    /\ out # <<>>

\* C13: at most one context is open at any time, every operation of the
\* desktop profile precedes every operation of the mobile profile, and the
\* mobile context is created only after close() of the desktop context has
\* returned.
C13_Sequential ==
    /\ Cardinality({p \in Profiles : ctx[p] = "open"}) <= 1
    /\ \A i, j \in 1..Len(log) :
         (log[i].prof = "desktop" /\ log[j].prof = "mobile") => i < j
    /\ \A m \in LogAt("new_context", "mobile") :
         \E c \in LogAt("ctx_close", "desktop") : c < m /\ log[c].ok
    /\ ctx["mobile"] # "none" => ctx["desktop"] = "closed"

\* C13 witness: the mobile context is open after the desktop context was
\* closed.
C13_Witness ==
    /\ ctx["desktop"] = "closed"
    /\ ctx["mobile"] = "open"

\* C14: a jar changes only by the cookie injection of a resolver call, and
\* then it is the jar of the profile whose page the call works on, which
\* gains the cookie for that page's URL; so nothing injected during the
\* desktop profile reaches the mobile jar, and the mobile jar holds a cookie
\* only by the mobile profile's own resolver call.
C14_JarsNotShared ==
    [][\A p \in Profiles :
         jar'[p] # jar[p] =>
           /\ p = prof
           /\ pc = "r_cookies"
           /\ jar'[p] = jar[p] \cup {ConsentCookie(page_url[p])}]_vars

\* C14 witness: both resolver calls have returned, the desktop call injected
\* its cookie and the mobile jar is empty.
C14_Witness ==
    /\ jar["desktop"] # {}
    /\ jar["mobile"] = {}
    /\ LogAt("resolved", "mobile") # {}

\* Positions of out that hold message msg about profile p.
OutAt(msg, p) == {i \in 1..Len(out) : out[i] = Line(msg, p)}

\* Positions of log at which an operation inside profile p's try (lines
\* 186-195, 210-219) failed.
ProfileFailures(p) ==
    {i \in 1..Len(log) :
       /\ log[i].prof = p
       /\ log[i].op \in {"goto", "resolved", "settle", "screenshot"}
       /\ ~log[i].ok}

\* C15 as stated: without verbose, no line is printed for a failure inside
\* a profile (navigation, consent resolution, screenshot).
C15_Original ==
    ~verbose => \A p \in Profiles : OutAt("profile_error", p) = {}

\* C15 amended: a failed navigation, settling delay or screenshot of a
\* profile prints that profile's error line whether or not verbose is set,
\* one line per failure; a failure inside consent resolution prints nothing,
\* and without verbose the resolver prints no line at all.
C15_ProfileErrorsAlwaysPrinted ==
    /\ \A p \in Profiles :
         Cardinality(OutAt("profile_error", p)) = Cardinality(ProfileFailures(p))
    /\ ~verbose =>
         \A i \in 1..Len(out) :
           out[i].msg \in {"invalid_url", "launch_error", "profile_error",
                           "capture_error"}
    /\ (InCall \/ pc = "r_ret") => OutAt("profile_error", prof) = {}

\* C15 witness: without verbose, the desktop navigation failed and its error
\* line was printed, and in the mobile resolver call an operation has raised.
C15_Witness ==
    /\ ~verbose
    /\ OutAt("profile_error", "desktop") # {}
    /\ pc = "r_ret"
    /\ \E i \in 1..Len(ops) : ops[i].res = "raised"

\* The program keeps taking steps until it is over: it is one flow of
\* awaited operations, each of which returns or raises.
FairSpec == Spec /\ WF_vars(Next)

\* C16: in one resolver call no catalog entry is probed or clicked twice, the
\* cookie injection, the reload and the style injection are each attempted
\* at most once, the call performs at most three operations per entry and
\* four after the loop, and every call returns.
C16_NoRetry ==
    /\ [](/\ \A k, m \in OpsAt("probe") \cup OpsAt("click") :
               (ops[k].op = ops[m].op /\ ops[k].sel = ops[m].sel) => k = m
          /\ Cardinality(OpsAt("add_cookies")) <= 1
          /\ Cardinality(OpsAt("reload")) <= 1
          /\ Cardinality(OpsAt("add_style_tag")) <= 1
          /\ Len(ops) <= 3 * NumSelectors + 4)
    /\ (InCall ~> pc = "r_ret")

\* C16 witness: a call has returned after the longest run of Tier 1: every
\* entry was probed and clicked, every settling delay raised, and the style
\* injection followed.
C16_Witness ==
    /\ pc = "r_ret"
    /\ Len(ops) = 3 * NumSelectors + 1

\* C17 as stated: a probe that raises is followed by the probe of the next
\* entry, or, for the last entry, by Tier 2 (the cookie injection); and a
\* probe that later reports a visible element is followed by the click on
\* that entry.
C17_Original ==
    \A k \in OpsAt("probe") :
      k < Len(ops) =>
        /\ ops[k].res = "raised" =>
             IF ops[k].sel < NumSelectors
             THEN ops[k + 1].op = "probe" /\ ops[k + 1].sel = ops[k].sel + 1
             ELSE ops[k + 1].op = "add_cookies"
        /\ ops[k].res = "visible" =>
             (ops[k + 1].op = "click" /\ ops[k + 1].sel = ops[k].sel)

\* C18: a screenshot of a profile is invoked only after that profile's
\* navigation succeeded and, unless skip_cookies, directly after the
\* settling delay that follows the returned resolver call has completed;
\* a profile whose navigation failed has no resolver call and no screenshot.
C18_ScreenshotOrder ==
    \A p \in Profiles :
      /\ \A s \in LogAt("screenshot", p) :
           /\ \E g \in LogAt("goto", p) : g < s /\ log[g].ok
           /\ IF skip_cookies
              THEN log[s - 1] = Ev("goto", p, TRUE)
              ELSE /\ s > 3
                   /\ log[s - 1] = Ev("settle", p, TRUE)
                   /\ log[s - 2] = Ev("resolved", p, TRUE)
                   /\ log[s - 3] = Ev("resolve", p, TRUE)
      /\ (\E g \in LogAt("goto", p) : ~log[g].ok) =>
           /\ LogAt("resolve", p) = {}
           /\ LogAt("screenshot", p) = {}
           /\ p \notin files

\* C18 witness: the desktop navigation failed, and the mobile screenshot was
\* written after its resolver call and settling delay.
C18_Witness ==
    /\ ~skip_cookies
    /\ \E g \in LogAt("goto", "desktop") : ~log[g].ok
    /\ files = {"mobile"}

\* C19 as stated: one resolver call performs at most one successful click.
C19_Original ==
    Cardinality({k \in OpsAt("click") : ops[k].res = "ok"}) <= 1

\* C20: once the screenshots directory exists, no exception leaves
\* take_screenshots: none has left it, an exception under way is on its way
\* to the finally of line 228 and the handler of line 231, and the function
\* keeps taking steps until it has returned.
C20_NeverRaises ==
    "screenshots" \in dirs =>
      /\ ~raised
      /\ exc => pc = "browser_close"
      /\ pc # "exit" => ENABLED Next

\* C20 witness: a run is over in which the desktop context was created,
\* opening its page raised and closing the browser raised as well.
C20_Witness ==
    /\ pc = "exit"
    /\ "screenshots" \in dirs
    /\ \E i \in LogAt("new_page", "desktop") : ~log[i].ok
    /\ \E i \in LogAt("browser_close", "browser") : ~log[i].ok

====
